---- MODULE Spec2Model ----
(***************************************************************************)
(* Task Tracking Dashboard (src/app.py): a Streamlit script that is run    *)
(* top to bottom on every user interaction.  One action of this module is  *)
(* one user interaction together with the script run(s) it causes; an      *)
(* st.rerun() restarts the script inside the same action.                  *)
(*                                                                         *)
(* Strings whose case and whitespace matter (cell values) are sequences of *)
(* one-character strings; opaque strings (user names, messages, column     *)
(* names) are TLA+ strings.                                                *)
(***************************************************************************)
EXTENDS Integers, Sequences, FiniteSets, TLC

\* ------------------------------------------------------------------ bounds
MaxRows == 2
TickSeconds == 30

\* ----------------------------------------------------------------- strings
Whitespace == {" "}
UpperChars == <<"A","B","C","D","E","F","G","H","I","J","K","L","M",
                "N","O","P","Q","R","S","T","U","V","W","X","Y","Z">>
LowerChars == <<"a","b","c","d","e","f","g","h","i","j","k","l","m",
                "n","o","p","q","r","s","t","u","v","w","x","y","z">>
Digits == <<"0","1","2","3","4","5","6","7","8","9">>
\* code point order of the characters the model uses
CharOrder == <<" ", "-", "/">> \o Digits \o UpperChars \o LowerChars

IndexOf(seq, c) == CHOOSE i \in 1..Len(seq) : seq[i] = c
OrdTable == [c \in {CharOrder[i] : i \in 1..Len(CharOrder)} |-> IndexOf(CharOrder, c)]
\* ord(c)
Ord(c) == OrdTable[c]

\* a missing value (NaN / None / pd.NA) in a text column; not a string
NA == <<"<NA>">>
\* a missing value (NaT) in a date column; dates are numbers >= 0
NaT == -1

LowerTable ==
    [c \in {UpperChars[i] : i \in 1..Len(UpperChars)} |->
        LowerChars[IndexOf(UpperChars, c)]]
lower_char(c) == IF c \in DOMAIN LowerTable THEN LowerTable[c] ELSE c

\* str.lower() / Series.str.lower()
lower(s) == IF s = NA THEN NA ELSE [i \in 1..Len(s) |-> lower_char(s[i])]

RECURSIVE lstrip(_)
lstrip(s) == IF s # <<>> /\ Head(s) \in Whitespace THEN lstrip(Tail(s)) ELSE s

RECURSIVE rstrip(_)
rstrip(s) ==
    IF s # <<>> /\ s[Len(s)] \in Whitespace
    THEN rstrip(SubSeq(s, 1, Len(s) - 1)) ELSE s

\* str.strip() / Series.str.strip(): missing values stay missing
strip(s) == IF s = NA THEN NA ELSE rstrip(lstrip(s))

\* Python's < on str: lexicographic by code point
RECURSIVE str_lt(_, _)
str_lt(a, b) ==
    IF b = <<>> THEN FALSE
    ELSE IF a = <<>> THEN TRUE
    ELSE IF Head(a) # Head(b) THEN Ord(Head(a)) < Ord(Head(b))
    ELSE str_lt(Tail(a), Tail(b))

\* str(n) for a non-negative int
RECURSIVE int_to_str(_)
int_to_str(n) ==
    IF n < 10 THEN <<Digits[n + 1]>>
    ELSE int_to_str(n \div 10) \o <<Digits[(n % 10) + 1]>>

IsDigit(c) == \E i \in 1..Len(Digits) : Digits[i] = c
DigitVal(c) == IndexOf(Digits, c) - 1

\* sorted(values): the values of a finite set of strings as an ascending list
RECURSIVE sorted(_)
sorted(S) ==
    IF S = {} THEN <<>>
    ELSE LET m == CHOOSE x \in S : \A y \in S \ {x} : str_lt(x, y)
         IN <<m>> \o sorted(S \ {m})

Range(seq) == {seq[i] : i \in 1..Len(seq)}

\* ------------------------------------------------------------ raw cells
\* A cell of the records: a string or a number (numericised), as
\* ws.get_all_records() yields them, or a missing value (None / NaN), as
\* pd.DataFrame(records) holds where a record lacks the key.
StrCell(s) == [t |-> "str", s |-> s, n |-> 0]
IntCell(n) == [t |-> "int", s |-> <<>>, n |-> n]
NullCell == [t |-> "null", s |-> <<>>, n |-> 0]

\* --------------------------------------------------- load_tasks: DataFrame
\* pd.DataFrame(records): the columns in header order, one row per record
\* under a RangeIndex; idx is the row's index label, which every later step
\* carries along.
DataFrame(records) ==
    [columns |-> records.columns,
     rows |-> [i \in 1..Len(records.rows) |->
                  [idx |-> i - 1, cells |-> records.rows[i]]]]

TextCols == {"Task", "Owner", "Project", "Status", "Priority", "Notes",
             "Task ID", "Blockers", "Project Team", "Latest Update"}
DateCols == {"Due Date", "Created At", "Updated At", "StartDate", "Deadline"}

\* Series.astype(str) on one cell.  A missing value becomes the text "nan"
\* (pandas 1.x, 2.x) or stays missing (pandas 3): keepsNA names the build.
astype_str(cell, keepsNA) ==
    CASE cell.t = "str" -> cell.s
      [] cell.t = "int" -> int_to_str(cell.n)
      [] cell.t = "null" -> IF keepsNA THEN NA ELSE <<"n", "a", "n">>

\* Series.fillna("") on one value
fillna(v) == IF v = NA THEN <<>> ELSE v

\* df[col].astype(str).fillna("").str.strip()
clean_text(cell, keepsNA) == strip(fillna(astype_str(cell, keepsNA)))

\* pd.to_datetime(..., errors="coerce") on one cell: an ISO date
\* "YYYY-MM-DD" becomes its position on the calendar (month lengths are not
\* checked), any other text or a missing value becomes NaT.  Sheet dates
\* arrive as text; numbers in a date column are not modelled.
to_datetime(cell) ==
    CASE cell.t = "null" -> NaT
      [] cell.t = "str" ->
           LET s == cell.s
               num(i, j) == IF j = i + 1
                            THEN DigitVal(s[i]) * 10 + DigitVal(s[j])
                            ELSE DigitVal(s[i]) * 1000 + DigitVal(s[i + 1]) * 100
                                 + DigitVal(s[i + 2]) * 10 + DigitVal(s[j])
           IN IF /\ Len(s) = 10
                 /\ s[5] = "-" /\ s[8] = "-"
                 /\ \A i \in {1, 2, 3, 4, 6, 7, 9, 10} : IsDigit(s[i])
                 /\ num(6, 7) \in 1..12
                 /\ num(9, 10) \in 1..31
              THEN num(1, 4) * 372 + (num(6, 7) - 1) * 31 + (num(9, 10) - 1)
              ELSE NaT

normalize_cell(col, cell, keepsNA) ==
    IF col \in TextCols THEN clean_text(cell, keepsNA)
    ELSE IF col \in DateCols THEN to_datetime(cell)
    ELSE cell

\* the body of load_tasks() once the records are fetched (header names
\* arrive trimmed)
normalize(records, keepsNA) ==
    LET df == DataFrame(records)
    IN [columns |-> df.columns,
        rows |-> [i \in 1..Len(df.rows) |->
                    [idx |-> df.rows[i].idx,
                     cells |-> [c \in DOMAIN df.rows[i].cells |->
                                  normalize_cell(c, df.rows[i].cells[c], keepsNA)]]]]

\* what load_tasks() may return for the records, over the builds
load(records) == {normalize(records, keepsNA) : keepsNA \in BOOLEAN}

has_column(df, col) == col \in Range(df.columns)

\* faulty variant: the empty-sheet guard never fires
empty_never(df) == FALSE

\* df.empty
empty(df) == Len(df.rows) = 0 \/ Len(df.columns) = 0

\* ------------------------------------------------------ filter options
\* Series.unique(): the distinct values in order of first appearance
RECURSIVE unique(_)
unique(values) ==
    IF values = <<>> THEN <<>>
    ELSE LET rest == unique(SubSeq(values, 1, Len(values) - 1))
             last == values[Len(values)]
         IN IF last \in Range(rest) THEN rest ELSE rest \o <<last>>

\* faulty variant: the options are not sorted
filter_options_unsorted(df, col) ==
    IF has_column(df, col)
    THEN SelectSeq(unique([i \in 1..Len(df.rows) |-> df.rows[i].cells[col]]),
                   LAMBDA v : v # NA)
    ELSE <<>>

\* sorted(df[col].dropna().unique().tolist()) if col in df.columns else []
filter_options(df, col) ==
    IF has_column(df, col)
    THEN sorted(Range(unique([i \in 1..Len(df.rows) |-> df.rows[i].cells[col]]))
                \ {NA})
    ELSE <<>>

FilterCols == <<"Owner", "Project", "Status">>

build_filter_options(df) ==
    [c \in Range(FilterCols) |-> filter_options(df, c)]

\* ------------------------------------------------------- apply filters
\* faulty variant: an empty selection filters too
filter_isin_unguarded(df, col, selected) ==
    IF has_column(df, col)
    THEN [df EXCEPT !.rows =
            SelectSeq(df.rows, LAMBDA r : r.cells[col] \in selected)]
    ELSE df

\* filtered[filtered[col].isin(selected)] guarded by
\* `col in filtered.columns and selected`
filter_isin(df, col, selected) ==
    IF has_column(df, col) /\ selected # {}
    THEN [df EXCEPT !.rows =
            SelectSeq(df.rows, LAMBDA r : r.cells[col] \in selected)]
    ELSE df

\* faulty variant: the Project filter is left out
apply_filters_skip_project(df, selection) ==
    filter_isin(filter_isin(df, "Owner", selection["Owner"]),
                "Status", selection["Status"])

apply_filters(df, selection) ==
    filter_isin(filter_isin(filter_isin(df, "Owner", selection["Owner"]),
                            "Project", selection["Project"]),
                "Status", selection["Status"])

\* ------------------------------------------------------------ KPI cards
\* faulty variant: the comparison keeps the case
count_status_exact(df, status_value) ==
    IF ~has_column(df, "Status") THEN 0
    ELSE Cardinality({i \in 1..Len(df.rows) :
            strip(df.rows[i].cells["Status"]) = status_value})

\* (df["Status"].astype(str).str.strip().str.lower() == status_value.lower()).sum()
count_status(df, status_value) ==
    IF ~has_column(df, "Status") THEN 0
    ELSE Cardinality({i \in 1..Len(df.rows) :
            lower(strip(df.rows[i].cells["Status"])) = lower(status_value)})

Blocked == <<"B", "l", "o", "c", "k", "e", "d">>
InProgress == <<"I", "n", " ", "P", "r", "o", "g", "r", "e", "s", "s">>
Done == <<"D", "o", "n", "e">>

kpi_cards(filtered) ==
    << [label |-> "Total", value |-> Len(filtered.rows)],
       [label |-> "Blocked", value |-> count_status(filtered, Blocked)],
       [label |-> "In Progress", value |-> count_status(filtered, InProgress)],
       [label |-> "Done", value |-> count_status(filtered, Done)] >>

\* ---------------------------------------------------------- tasks table
preferred_order == <<"Task", "Owner", "Project", "Status", "Task ID",
                     "StartDate", "Deadline", "Due Date",
                     "Latest Update", "Blockers", "Project Team",
                     "Priority", "Notes">>

display_cols(df) ==
    LET existing == SelectSeq(preferred_order, LAMBDA c : has_column(df, c))
        rest == SelectSeq(df.columns, LAMBDA c : c \notin Range(existing))
    IN existing \o rest

\* filtered[display_cols].copy()
display_df(filtered) == [filtered EXCEPT !.columns = display_cols(filtered)]

SortCandidates == <<"Deadline", "Due Date", "StartDate">>

\* the first candidate present, "" for None
sort_col(df) ==
    LET present == SelectSeq(SortCandidates, LAMBDA c : has_column(df, c))
    IN IF present = <<>> THEN "" ELSE Head(present)

RowOrders(n) ==
    {p \in [1..n -> 1..n] : \A i, j \in 1..n : p[i] = p[j] => i = j}

\* sort_values(by=[col], ascending=True, na_position="last") with the default
\* kind="quicksort": the dated rows come out in ascending order, rows with
\* the same date in whatever order the unstable sort leaves them, then the
\* undated rows in their input order.  The set of orders it may produce.
sort_values(df, col) ==
    LET n == Len(df.rows)
        key(i) == df.rows[i].cells[col]
    IN { [df EXCEPT !.rows = [k \in 1..n |-> df.rows[p[k]]]] :
           p \in { q \in RowOrders(n) :
                   \A a, b \in 1..n : a < b =>
                     \/ key(q[b]) = NaT /\ key(q[a]) # NaT
                     \/ key(q[b]) = NaT /\ key(q[a]) = NaT /\ q[a] < q[b]
                     \/ key(q[a]) # NaT /\ key(q[b]) # NaT
                        /\ key(q[a]) <= key(q[b]) } }

\* the table st.dataframe may be given
tasks_table(filtered) ==
    LET d == display_df(filtered)
    IN IF sort_col(d) # "" THEN sort_values(d, sort_col(d)) ELSE {d}

\* ------------------------------------------------------------ sample data
\* text as a list of characters
Al == <<"A", "l">>
SpAl == <<" ", "A", "l">>
Bo == <<"B", "o">>
ProjX == <<"X">>
Blank == <<>>
blocked_lc == <<"b", "l", "o", "c", "k", "e", "d">>
BLOCKED_uc == <<"B", "L", "O", "C", "K", "E", "D">>
SpDone == <<" ", "D", "o", "n", "e">>
done_sp == <<"d", "o", "n", "e", " ">>
March1 == <<"2", "0", "2", "4", "-", "0", "3", "-", "0", "1">>
Jan1 == <<"2", "0", "2", "4", "-", "0", "1", "-", "0", "1">>
NotADate == <<"N", "/", "A">>

\* one record of get_all_records(): the header's names to the row's cells
Record(columns, cells) ==
    [c \in Range(columns) |-> cells[IndexOf(columns, c)]]

\* the shapes of sheet the checks draw from: the header row and the rows a
\* sheet of that shape may hold
Layouts ==
    { [columns |-> <<"Owner", "Project", "Status">>,
       rows |-> { Record(<<"Owner", "Project", "Status">>, cells) : cells \in
                  { <<StrCell(Al), StrCell(ProjX), StrCell(Done)>>,
                    <<StrCell(Bo), StrCell(ProjX), StrCell(done_sp)>>,
                    <<StrCell(Al), StrCell(Blank), StrCell(done_sp)>>,
                    <<StrCell(Bo), StrCell(Blank), StrCell(Done)>> } }],
      [columns |-> <<"Status">>,
       rows |-> { Record(<<"Status">>, <<cell>>) : cell \in
                  { StrCell(Blocked), StrCell(blocked_lc), StrCell(SpDone),
                    StrCell(Blank) } }],
      [columns |-> <<"Status", "Deadline">>,
       rows |-> { Record(<<"Status", "Deadline">>, <<status, deadline>>) :
                  status \in {StrCell(Blocked), StrCell(SpDone)},
                  deadline \in {StrCell(March1), StrCell(Jan1),
                                StrCell(NotADate)} }],
      [columns |-> <<"Task ID", "StartDate", "Due Date">>,
       rows |-> { Record(<<"Task ID", "StartDate", "Due Date">>,
                         <<id, start, due>>) :
                  id \in {IntCell(7), IntCell(12)},
                  start \in {StrCell(Jan1), StrCell(NotADate)},
                  due \in {StrCell(March1), StrCell(Blank)} }],
      [columns |-> <<"Owner", "Notes">>,
       rows |-> { Record(<<"Owner", "Notes">>, <<owner, StrCell(Blank)>>) :
                  owner \in {StrCell(Al), StrCell(SpAl), StrCell(Blank)} }] }

\* shapes of record list in which a cell may be missing: no sheet yields
\* them (a blank cell arrives as ""), a list of mappings with differing keys
\* does
RaggedLayouts ==
    { [columns |-> <<"Owner", "Notes">>,
       rows |-> { Record(<<"Owner", "Notes">>, <<owner, notes>>) :
                  owner \in {StrCell(SpAl), StrCell(Blank), NullCell},
                  notes \in {StrCell(Blank), NullCell} }],
      [columns |-> <<"Status", "Task ID", "Deadline">>,
       rows |-> { Record(<<"Status", "Task ID", "Deadline">>,
                         <<status, id, deadline>>) :
                  status \in {StrCell(SpDone), NullCell},
                  id \in {IntCell(12), NullCell},
                  deadline \in {StrCell(Jan1), NullCell} }] }

\* ws.get_all_records() of a sheet without data rows is [], a frame
\* without columns
NoRecords == [columns |-> <<>>, rows |-> <<>>]

\* every record list of 0..MaxRows rows of one of the layouts
RecordLists(layouts) ==
    {NoRecords} \cup
    UNION { UNION { {[columns |-> l.columns, rows |-> rows] :
                        rows \in [1..n -> l.rows]} : n \in 1..MaxRows }
            : l \in layouts }

Sheets == RecordLists(Layouts)

RaggedRecords == RecordLists(RaggedLayouts)

\* the sheets of the interactive specification
AppSheets ==
    { NoRecords,
      [columns |-> <<"Status", "Deadline">>,
       rows |-> << [c \in {"Status", "Deadline"} |->
                      IF c = "Status" THEN StrCell(Blocked) ELSE StrCell(March1)] >>],
      [columns |-> <<"Status", "Deadline">>,
       rows |-> << [c \in {"Status", "Deadline"} |->
                      IF c = "Status" THEN StrCell(Done) ELSE StrCell(March1)],
                   [c \in {"Status", "Deadline"} |->
                      IF c = "Status" THEN StrCell(blocked_lc) ELSE StrCell(March1)] >>] }

\* ------------------------------------------------------------------ state
VARIABLES
    session_state,  \* st.session_state: a mapping from the keys that are set
    secrets,        \* st.secrets
    store,          \* the spreadsheet: reachable?, its tabs, the tab's records
    cache,          \* st.cache_data's entry for load_tasks: <<>> or <<entry>>
    run,            \* what the last script run fetched, computed and rendered
    trigger,        \* the interaction that caused the last step
    probe           \* count_status applied on its own: <<>> or <<[...]>>

vars == <<session_state, secrets, store, cache, run, trigger, probe>>

TTL == 60

None == "<None>"

\* ---------------------------------------------------------------- secrets
FullAuth == [username |-> "amani", password |-> "pw1",
             manager_username |-> "boss", manager_password |-> "pw2"]

SecretsSamples ==
    { [auth |-> FullAuth, gcp_service_account |-> "key",
       sheets |-> [spreadsheet_id |-> "sid"]],
      [auth |-> FullAuth, gcp_service_account |-> "key",
       sheets |-> [spreadsheet_id |-> "sid", worksheet_name |-> "Board"]],
      [auth |-> [username |-> "amani", password |-> "pw1"],
       gcp_service_account |-> "malformed",
       sheets |-> [spreadsheet_id |-> "sid"]],
      [gcp_service_account |-> "key", sheets |-> [spreadsheet_id |-> "sid"]],
      [auth |-> FullAuth, sheets |-> [spreadsheet_id |-> "sid"]],
      [auth |-> FullAuth, gcp_service_account |-> "key"],
      [auth |-> FullAuth, gcp_service_account |-> "key",
       sheets |-> [worksheet_name |-> "Board"]] }

\* mapping.get(key)
Get(mapping, key) == IF key \in DOMAIN mapping THEN mapping[key] ELSE None

Usernames == {"amani", "boss", "eve"}
Passwords == {"pw1", "pw2"}

\* faulty variant: the password is not compared
credentials_ok_any_password(auth, username, password) ==
    username \in {Get(auth, "username"), Get(auth, "manager_username")}

\* `username in valid_users and password == valid_users.get(username)` for
\* the dict literal of the two configured pairs (a repeated key keeps the
\* later value)
credentials_ok(auth, username, password) ==
    LET k1 == Get(auth, "username")
        k2 == Get(auth, "manager_username")
        valid_users_get == IF username = k2 THEN Get(auth, "manager_password")
                           ELSE IF username = k1 THEN Get(auth, "password")
                           ELSE None
    IN username \in {k1, k2} /\ password = valid_users_get

\* WORKSHEET_NAME = st.secrets["sheets"].get("worksheet_name", "Tasks")
WORKSHEET_NAME ==
    IF "worksheet_name" \in DOMAIN secrets["sheets"]
    THEN secrets["sheets"]["worksheet_name"] ELSE "Tasks"

\* ------------------------------------------------------- the script run
\* A run that stopped before a step leaves that step's slot empty.
Stopped(screen, messages, fetch) ==
    [screen |-> screen, messages |-> messages, fetch |-> fetch,
     df |-> <<>>, options |-> <<>>, selected |-> <<>>, filtered |-> <<>>,
     metrics |-> <<>>, table |-> <<>>]

NoRun == Stopped("blank", <<>>, "none")

LoggedOut == [authenticated |-> FALSE, user |-> None]

\* require_login() when no button is pressed and the session is not
\* authenticated: the form, or the missing-[auth] error
login_form(ss) ==
    IF "auth" \notin DOMAIN secrets
    THEN [session_state |-> ss, cache |-> cache,
          run |-> Stopped("login", <<"Missing [auth] in Streamlit Secrets">>, "none")]
    ELSE [session_state |-> ss, cache |-> cache,
          run |-> Stopped("login", <<>>, "none")]

\* load_tasks() behind @st.cache_data(ttl=60): the entry while it is young,
\* else the body: client, spreadsheet, worksheet, records, clean-up.  A call
\* that raises stores nothing.
load_tasks(cch) ==
    IF cch # <<>> /\ cch[1].age < TTL
    THEN {[outcome |-> "hit", df |-> <<cch[1].df>>, cache |-> cch]}
    ELSE IF secrets["gcp_service_account"] = "malformed" \/ ~store.up
    THEN {[outcome |-> "Exception", df |-> <<>>, cache |-> cch]}
    ELSE IF WORKSHEET_NAME \notin store.tabs
    THEN {[outcome |-> "WorksheetNotFound", df |-> <<>>, cache |-> cch]}
    ELSE {[outcome |-> "fetched", df |-> <<df>>,
           cache |-> <<[df |-> df, age |-> 0]>>] : df \in load(store.records)}

\* st.multiselect(label, options, default=options): the widget keeps the
\* user's choice while its options stay the same, else it shows the default
multiselect(col, options, widgets) ==
    IF widgets # <<>> /\ widgets[1].options[col] = options
    THEN widgets[1].value[col]
    ELSE Range(options)

\* the widget state a run leaves behind
widgets_of(r) ==
    IF r.options = <<>> THEN <<>>
    ELSE <<[options |-> r.options[1], value |-> r.selected[1]]>>

\* faulty variant: one except clause for every failure
load_failed_one_message(ss, l) ==
    {[session_state |-> ss, cache |-> l.cache,
      run |-> Stopped("error",
                      <<"Could not load Google Sheet", "exception">>,
                      l.outcome)]}

\* the two except clauses around load_tasks(): the message, then st.stop()
load_failed(ss, l) ==
    IF l.outcome = "WorksheetNotFound"
    THEN {[session_state |-> ss, cache |-> l.cache,
           run |-> Stopped("error", <<"Worksheet not found">>, l.outcome)]}
    ELSE {[session_state |-> ss, cache |-> l.cache,
           run |-> Stopped("error",
                           <<"Could not load Google Sheet", "exception">>,
                           l.outcome)]}

\* lines 139-223 once load_tasks() has returned l.df
loaded(ss, l, widgets) ==
    IF empty(l.df[1])
    THEN {[session_state |-> ss, cache |-> l.cache,
           run |-> [Stopped("empty", <<"No tasks found in the sheet yet.">>,
                            l.outcome) EXCEPT !.df = l.df]]}
    ELSE
    LET df == l.df[1]
        options == build_filter_options(df)
        selected == [c \in Range(FilterCols) |->
                       multiselect(c, options[c], widgets)]
        filtered == apply_filters(df, selected)
    IN {[session_state |-> ss, cache |-> l.cache,
         run |-> [screen |-> "dashboard", messages |-> <<>>,
                  fetch |-> l.outcome, df |-> <<df>>,
                  options |-> <<options>>, selected |-> <<selected>>,
                  filtered |-> <<filtered>>,
                  metrics |-> kpi_cards(filtered),
                  table |-> <<t>>]] : t \in tasks_table(filtered)}

\* Lines 56-223 for an authenticated session with no button pressed: every
\* way the run can end, with the cache it leaves.
dashboard(ss, cch, widgets) ==
    IF "gcp_service_account" \notin DOMAIN secrets
    THEN {[session_state |-> ss, cache |-> cch,
           run |-> Stopped("secrets", <<"Missing gcp_service_account">>, "none")]}
    ELSE IF "sheets" \notin DOMAIN secrets
            \/ "spreadsheet_id" \notin DOMAIN secrets["sheets"]
    THEN {[session_state |-> ss, cache |-> cch,
           run |-> Stopped("secrets", <<"Missing sheets.spreadsheet_id">>, "none")]}
    ELSE
    UNION { IF l.outcome \in {"WorksheetNotFound", "Exception"}
            THEN load_failed(ss, l) ELSE loaded(ss, l, widgets)
            : l \in load_tasks(cch) }

\* faulty variant: the rerun without st.cache_data.clear()
refresh_no_clear(ss, first) ==
    IF first.run.screen = "dashboard"
    THEN dashboard(ss, first.cache, widgets_of(first.run))
    ELSE {first}

\* `if st.button("Refresh now")` in a run that got as far as the button:
\* st.cache_data.clear(), then st.rerun()
refresh_now(ss, first) ==
    IF first.run.screen = "dashboard"
    THEN dashboard(ss, <<>>, widgets_of(first.run))
    ELSE {first}

\* One interaction: the script run with `click` pressed and, where the
\* script calls st.rerun(), the run that follows.
script(click, username, password, widgets) ==
    LET ss == IF "authenticated" \in DOMAIN session_state
              THEN session_state ELSE LoggedOut
    IN IF ~ss["authenticated"]
       THEN IF "auth" \notin DOMAIN secrets THEN {login_form(ss)}
            ELSE IF click = "login"
            THEN IF credentials_ok(secrets["auth"], username, password)
                 THEN dashboard([authenticated |-> TRUE, user |-> username],
                                cache, widgets)
                 ELSE {[login_form(ss) EXCEPT
                          !.run.messages = <<"Invalid username or password">>]}
            ELSE {login_form(ss)}
       ELSE IF click = "logout" THEN {login_form(LoggedOut)}
       ELSE IF click = "refresh"
       THEN UNION { refresh_now(ss, first)
                    : first \in dashboard(ss, cache, widgets) }
       ELSE dashboard(ss, cache, widgets)

\* an interaction that types nothing
Event(kind) == [kind |-> kind, username |-> "", password |-> ""]

Interact(kind, click, username, password, widgets) ==
    \E out \in script(click, username, password, widgets) :
      /\ session_state' = out.session_state
      /\ cache' = out.cache
      /\ run' = out.run
      /\ trigger' = [kind |-> kind, username |-> username, password |-> password]
      /\ probe' = <<>>
      /\ UNCHANGED <<secrets, store>>

\* ---------------------------------------------------------------- actions
\* the page is opened or re-run without any button pressed
Open == Interact("open", "none", "", "", widgets_of(run))

\* the Login button, rendered by the last run's form
Login ==
    /\ run.screen = "login" /\ "auth" \in DOMAIN secrets
    /\ \E username \in Usernames, password \in Passwords :
         Interact("login", "login", username, password, widgets_of(run))

\* the Logout button of the sidebar
Logout ==
    /\ run.screen \in {"secrets", "error", "empty", "dashboard"}
    /\ Interact("logout", "logout", "", "", widgets_of(run))

\* one of the three multiselects is given another choice
ChangeFilter ==
    /\ run.screen = "dashboard"
    /\ \E c \in Range(FilterCols) :
         \E chosen \in SUBSET Range(run.options[1][c]) :
           Interact("filter", "none", "", "",
                    <<[options |-> run.options[1],
                       value |-> [run.selected[1] EXCEPT ![c] = chosen]]>>)

\* the "Refresh now" button under the table
Refresh ==
    /\ run.screen = "dashboard"
    /\ Interact("refresh", "refresh", "", "", widgets_of(run))

\* time passes: the cached entry ages
Tick ==
    /\ cache # <<>> /\ cache[1].age < TTL
    /\ cache' = <<[cache[1] EXCEPT !.age = @ + TickSeconds]>>
    /\ trigger' = Event("tick")
    /\ UNCHANGED <<session_state, secrets, store, run, probe>>

\* the spreadsheet changes behind the dashboard's back
EditSheet ==
    /\ \E records \in AppSheets \ {store.records} :
         store' = [store EXCEPT !.records = records]
    /\ trigger' = Event("edit")
    /\ UNCHANGED <<session_state, secrets, cache, run, probe>>

TabSets == {{"Tasks", "Board"}, {"Tasks"}, {"Board"}}

RenameTab ==
    /\ \E tabs \in TabSets \ {store.tabs} : store' = [store EXCEPT !.tabs = tabs]
    /\ trigger' = Event("rename")
    /\ UNCHANGED <<session_state, secrets, cache, run, probe>>

Outage ==
    /\ store' = [store EXCEPT !.up = ~store.up]
    /\ trigger' = Event("outage")
    /\ UNCHANGED <<session_state, secrets, cache, run, probe>>

Init ==
    /\ session_state = [k \in {} |-> None]
    /\ secrets \in SecretsSamples
    /\ store \in [up : {TRUE}, tabs : {{"Tasks", "Board"}}, records : AppSheets]
    /\ cache = <<>>
    /\ run = NoRun
    /\ trigger = Event("start")
    /\ probe = <<>>

Next ==
    \/ Open \/ Login \/ Logout \/ ChangeFilter \/ Refresh
    \/ Tick \/ EditSheet \/ RenameTab \/ Outage

Spec == Init /\ [][Next]_vars

\* ------------------------------------------------- the pipeline on its own
\* The same script for a session that is logged in, over every sheet of the
\* layouts, with the counter applied to arbitrary status values.
StatusProbes == {Blocked, blocked_lc, BLOCKED_uc, Done, SpDone, Blank}

\* count_status(filtered, status_value) called on its own
CountStatus ==
    /\ run.filtered # <<>>
    /\ \E v \in StatusProbes :
         probe' = <<[df |-> run.filtered[1], status_value |-> v,
                     count |-> count_status(run.filtered[1], v)]>>
    /\ trigger' = Event("count")
    /\ UNCHANGED <<session_state, secrets, store, cache, run>>

LoggedInOver(records) ==
    /\ session_state = [authenticated |-> TRUE, user |-> "amani"]
    /\ secrets = [auth |-> FullAuth, gcp_service_account |-> "key",
                  sheets |-> [spreadsheet_id |-> "sid"]]
    /\ store \in [up : {TRUE}, tabs : {{"Tasks", "Board"}}, records : records]
    /\ cache = <<>>
    /\ run = NoRun
    /\ trigger = Event("start")
    /\ probe = <<>>

PipeInit == LoggedInOver(Sheets)

PipeNext == Open \/ ChangeFilter

PipeSpec == PipeInit /\ [][PipeNext]_vars

CountNext == Open \/ CountStatus

CountSpec == PipeInit /\ [][CountNext]_vars

\* load_tasks() over record lists with missing cells
LoadInit == LoggedInOver(RaggedRecords)

LoadNext == Open \/ ChangeFilter

LoadSpec == LoadInit /\ [][LoadNext]_vars

\* ================================================================ claims
Authenticated(ss) == "authenticated" \in DOMAIN ss /\ ss["authenticated"]

FetchFailed == run.fetch \in {"WorksheetNotFound", "Exception"}

\* C1: a run whose load_tasks() fails - worksheet not found or any other
\* error - stops there: no data frame, no filter options, no filter widget,
\* no counter and no table come out of it, and the worksheet-not-found
\* message is shown exactly for the worksheet-not-found failure.
C1_FetchFailureHalts ==
    FetchFailed =>
        /\ run.screen = "error"
        /\ run.df = <<>> /\ run.options = <<>> /\ run.selected = <<>>
        /\ run.filtered = <<>> /\ run.metrics = <<>> /\ run.table = <<>>
        /\ run.messages # <<>>
        /\ (run.fetch = "WorksheetNotFound") <=>
               (run.messages[1] = "Worksheet not found")

C1_Witness ==
    /\ run.fetch = "WorksheetNotFound"
    /\ Authenticated(session_state)
    /\ run.messages = <<"Worksheet not found">>

ZeroRows == run.df # <<>> /\ Len(run.df[1].rows) = 0

\* C2 (amended): a sheet without data rows ends the run in the "empty"
\* state - the info message alone, after a fetch that did not fail - in
\* which no counter and no table is rendered.
C2_EmptyResult ==
    /\ ZeroRows => run.screen = "empty"
    /\ run.screen = "empty" =>
        /\ ZeroRows
        /\ ~FetchFailed
        /\ run.messages = <<"No tasks found in the sheet yet.">>
        /\ run.options = <<>> /\ run.metrics = <<>> /\ run.table = <<>>

C2_Witness ==
    /\ run.screen = "empty" /\ run.fetch = "fetched"
    /\ Authenticated(session_state)

\* C2 as claimed: in the "empty" state the four counters (Total, Blocked,
\* In Progress, Done) are there and all zero, and no table is rendered.
C2_CountersAllZero ==
    run.screen = "empty" =>
        /\ ~FetchFailed
        /\ Len(run.metrics) = 4
        /\ \A i \in 1..Len(run.metrics) : run.metrics[i].value = 0
        /\ run.table = <<>>

SnapshotLive == cache # <<>> /\ cache[1].age < TTL

\* C8: the run after a Refresh click never serves load_tasks() from the
\* cache, and what it fetches is the sheet as it is now; while the cached
\* snapshot is younger than its time-to-live, opening the page, logging in
\* or out and changing a filter leave it in place and are served from it.
C8_RefreshInvalidates ==
    [][ /\ trigger'.kind = "refresh" =>
            /\ run'.fetch # "hit"
            /\ run'.fetch = "fetched" =>
                 /\ run'.df[1] \in load(store.records)
                 /\ cache' = <<[df |-> run'.df[1], age |-> 0]>>
        /\ (SnapshotLive /\ trigger'.kind \in {"open", "login", "logout", "filter"}) =>
            /\ cache' = cache
            /\ run'.fetch \in {"hit", "none"}
        /\ (SnapshotLive /\ cache' # cache) => trigger'.kind \in {"refresh", "tick"}
      ]_vars

C8_Witness ==
    /\ trigger.kind = "refresh" /\ run.fetch = "fetched"
    /\ run.screen = "dashboard"
    /\ cache # <<>> /\ cache[1].age = 0

\* the credential pairs of [auth]
ConfiguredPairs ==
    IF "auth" \in DOMAIN secrets
    THEN { <<Get(secrets["auth"], "username"), Get(secrets["auth"], "password")>>,
           <<Get(secrets["auth"], "manager_username"),
             Get(secrets["auth"], "manager_password")>> }
    ELSE {}

PipelineRan(r) ==
    \/ r.fetch # "none" \/ r.df # <<>> \/ r.options # <<>>
    \/ r.filtered # <<>> \/ r.metrics # <<>> \/ r.table # <<>>

SessionConsistent(ss, r) ==
    /\ Authenticated(ss) <=> Get(ss, "user") # None
    /\ ~Authenticated(ss) => ~PipelineRan(r)

\* C10: a run of a session that is not authenticated fetches, filters,
\* counts and tabulates nothing; a session becomes authenticated only by a
\* Login click whose user name and password are one of the configured
\* pairs, and then records that user; the recorded user is non-null exactly
\* when the session is authenticated.
C10_LoginGate ==
    [][ /\ SessionConsistent(session_state, run)
        /\ SessionConsistent(session_state', run')
        /\ (~Authenticated(session_state) /\ Authenticated(session_state')) =>
            /\ trigger'.kind = "login"
            /\ <<trigger'.username, trigger'.password>> \in ConfiguredPairs
            /\ session_state'["user"] = trigger'.username
        /\ (Authenticated(session_state) /\ ~Authenticated(session_state')) =>
            /\ trigger'.kind = "logout"
            /\ session_state'["user"] = None
      ]_vars

C10_Witness ==
    /\ trigger.kind = "login" /\ Authenticated(session_state)
    /\ session_state["user"] = "boss"
    /\ run.screen = "dashboard"

\* ------------------------------------------------- claims on the pipeline
ColumnValues(df, col) == {df.rows[i].cells[col] : i \in 1..Len(df.rows)}

\* the status values of T that equal v when case is ignored
CaseVariants(T, v) == {w \in ColumnValues(T, "Status") : lower(w) = lower(v)}

\* C3 (amended): with a Status column, count_status(T, v) is the number of
\* records applyFilters keeps for the selection of all of T's status values
\* that equal v ignoring case (0 when there is none); that is never fewer
\* than applyFilters(T, {Status: {v}}) keeps, and the same number when v is
\* the only such value.  Without a Status column the count is 0.
C3_CountIgnoresCase ==
    probe # <<>> =>
        LET T == probe[1].df
            v == probe[1].status_value
            n == probe[1].count
            exact == Len(filter_isin(T, "Status", {v}).rows)
        IN IF ~has_column(T, "Status") THEN n = 0
           ELSE /\ n = IF CaseVariants(T, v) = {} THEN 0
                       ELSE Len(filter_isin(T, "Status", CaseVariants(T, v)).rows)
                /\ n >= exact
                /\ CaseVariants(T, v) = {v} => n = exact

C3_Witness ==
    /\ probe # <<>>
    /\ probe[1].status_value = Blocked
    /\ probe[1].count = 2
    /\ ColumnValues(probe[1].df, "Status") = {Blocked, blocked_lc}

\* C3 as claimed: count_status(T, v) is the number of records of
\* applyFilters(T, {Status: {v}}), whatever the case and whitespace of v.
C3_CountEqualsFilter ==
    probe # <<>> =>
        probe[1].count =
            Len(apply_filters(probe[1].df,
                              [c \in Range(FilterCols) |->
                                 IF c = "Status" THEN {probe[1].status_value}
                                 ELSE {}]).rows)

FullOrEmpty(c) ==
    run.selected[1][c] = {} \/ run.selected[1][c] = Range(run.options[1][c])

\* C4: a filter whose selection is empty or all of its options keeps the
\* loaded frame as it is, rows and order; with every filter so, the
\* filtered frame is the loaded frame; and the first render of a sheet has
\* every option selected and shows every record.
C4_FullOrEmptyIsIdentity ==
    run.screen = "dashboard" =>
        /\ \A c \in Range(FilterCols) :
             FullOrEmpty(c) => filter_isin(run.df[1], c, run.selected[1][c]) = run.df[1]
        /\ (\A c \in Range(FilterCols) : FullOrEmpty(c)) => run.filtered[1] = run.df[1]
        /\ run.fetch = "fetched" =>
             /\ \A c \in Range(FilterCols) :
                  run.selected[1][c] = Range(run.options[1][c])
             /\ run.filtered[1] = run.df[1]

C4_Witness ==
    /\ run.screen = "dashboard" /\ trigger.kind = "filter"
    /\ run.selected[1]["Owner"] = {}
    /\ run.selected[1]["Project"] = {ProjX, Blank}
    /\ Len(run.options[1]["Owner"]) = 2
    /\ Len(run.df[1].rows) = 2
    /\ run.filtered[1] = run.df[1]

Ascending(options) ==
    \A k \in 1..Len(options) - 1 : str_lt(options[k], options[k + 1])

\* C5 (amended): the options built for Owner, Project and Status are the
\* values present in the column, missing values left out, in ascending
\* order without duplicates - the empty string among them when a record's
\* cell is empty - and the empty list when the column is absent.
C5_FilterOptions ==
    run.options # <<>> =>
        \A c \in Range(FilterCols) :
            LET o == run.options[1][c]
            IN /\ Ascending(o)
               /\ NA \notin Range(o)
               /\ Range(o) = IF has_column(run.df[1], c)
                             THEN ColumnValues(run.df[1], c) \ {NA} ELSE {}
               /\ ~has_column(run.df[1], c) => o = <<>>

C5_Witness ==
    /\ run.options # <<>>
    /\ run.options[1]["Owner"] = <<Blank, Al>>
    /\ run.df[1].rows[1].cells["Owner"] = Al
    /\ Len(run.df[1].rows) = MaxRows
    /\ run.options[1]["Status"] = <<>>

\* C5 as claimed: ascending, without duplicates, and no empty value among
\* the options.
C5_NoEmptyOption ==
    run.options # <<>> =>
        \A c \in Range(FilterCols) :
            LET o == run.options[1][c]
            IN /\ Ascending(o)
               /\ Blank \notin Range(o)
               /\ ~has_column(run.df[1], c) => o = <<>>

IsText(v) == v # NA /\ \A k \in 1..Len(v) : v[k] \in DOMAIN OrdTable

Trimmed(v) ==
    v = <<>> \/ (v[1] \notin Whitespace /\ v[Len(v)] \notin Whitespace)

C6_TrimmedText ==
    run.df # <<>> =>
        \A i \in 1..Len(run.df[1].rows) :
            \A c \in TextCols \cap Range(run.df[1].columns) :
                IsText(run.df[1].rows[i].cells[c])
                /\ Trimmed(run.df[1].rows[i].cells[c])

PositionOf(df, idx) == CHOOSE i \in 1..Len(df.rows) : df.rows[i].idx = idx

FirstPresent(df) ==
    IF has_column(df, "Deadline") THEN "Deadline"
    ELSE IF has_column(df, "Due Date") THEN "Due Date"
    ELSE IF has_column(df, "StartDate") THEN "StartDate"
    ELSE ""

\* the table holds the rows of the filtered frame, ascending by the first
\* of Deadline, Due Date, StartDate that is present, undated rows last
SortedNullsLast(out, inp, col) ==
    /\ Len(out.rows) = Len(inp.rows)
    /\ Range(out.rows) = Range(inp.rows)
    /\ \A a, b \in 1..Len(out.rows) : a < b =>
         LET ka == out.rows[a].cells[col]
             kb == out.rows[b].cells[col]
         IN /\ ka = NaT => kb = NaT
            /\ (ka # NaT /\ kb # NaT) => ka <= kb

\* rows with the same sort key (both undated included) keep their input order
Stable(out, inp, col) ==
    \A a, b \in 1..Len(out.rows) :
        (a < b /\ out.rows[a].cells[col] = out.rows[b].cells[col]) =>
            PositionOf(inp, out.rows[a].idx) < PositionOf(inp, out.rows[b].idx)

\* C7 as claimed: the table is the filtered frame stable-sorted ascending by
\* the first of Deadline, Due Date, StartDate present, undated rows last;
\* left in input order when none is present.
C7_StableDateSort ==
    run.table # <<>> =>
        LET inp == run.filtered[1]
            out == run.table[1]
            col == FirstPresent(inp)
        IN IF col = "" THEN out.rows = inp.rows
           ELSE SortedNullsLast(out, inp, col) /\ Stable(out, inp, col)

\* what the code does keep of C7: sorted, undated last, the undated rows
\* among themselves in input order
C7_SortedUnstable ==
    run.table # <<>> =>
        LET inp == run.filtered[1]
            out == run.table[1]
            col == FirstPresent(inp)
        IN IF col = "" THEN out.rows = inp.rows
           ELSE /\ SortedNullsLast(out, inp, col)
                /\ \A a, b \in 1..Len(out.rows) :
                     (a < b /\ out.rows[a].cells[col] = NaT) =>
                        PositionOf(inp, out.rows[a].idx) < PositionOf(inp, out.rows[b].idx)

Keeps(df, selection, r) ==
    \A c \in Range(FilterCols) :
        (has_column(df, c) /\ selection[c] # {}) => r.cells[c] \in selection[c]

\* C9: the filtered frame holds exactly the records of the loaded frame
\* whose value is in the selection of every column that has a non-empty
\* selection, in the loaded frame's order, and the loaded frame is still
\* what load_tasks() returned.
C9_ApplyFilters ==
    run.screen = "dashboard" =>
        LET T == run.df[1]
            S == run.selected[1]
            F == run.filtered[1]
        IN /\ Range(F.rows) = {r \in Range(T.rows) : Keeps(T, S, r)}
           /\ \A a, b \in 1..Len(F.rows) :
                a < b => PositionOf(T, F.rows[a].idx) < PositionOf(T, F.rows[b].idx)
           /\ F.columns = T.columns
           /\ cache # <<>> /\ cache[1].df = T /\ T \in load(store.records)

C9_Witness ==
    /\ run.screen = "dashboard" /\ trigger.kind = "filter"
    /\ run.selected[1]["Owner"] = {Al}
    /\ run.selected[1]["Project"] = {Blank}
    /\ run.selected[1]["Status"] = {}
    /\ Len(run.df[1].rows) = 2
    /\ Len(run.filtered[1].rows) = 1

====
